---- MODULE Spec2Model ----
(***************************************************************************)
(* A model of final_project.py: the request cache (construct_unique_key,   *)
(* open_cache, save_cache, make_request_with_cache over the process-wide   *)
(* CACHE_DICT) and the import (create_db, load_bing_coronavirus_data).     *)
(*                                                                         *)
(* A Python str is a sequence of one-character strings; str comparison is  *)
(* by code point (ord).  A Python dict is the sequence of its <<key,       *)
(* value>> items in insertion order, with distinct keys; two dicts are     *)
(* equal when they hold the same items, whatever the order.                *)
(***************************************************************************)
EXTENDS Integers, Sequences, FiniteSets, TLC

VARIABLES CACHE_DICT, files, fetches, saves, last, calls, keyRun, db, imp

vars == <<CACHE_DICT, files, fetches, saves, last, calls, keyRun, db, imp>>

(***************************************************************************)
(* Bounds of the model.                                                    *)
(***************************************************************************)
MaxParams == 2      \* items in a params dict
MaxCalls == 3       \* make_request_with_cache calls in one process run
MaxEntries == 2     \* items in a mapping handed to save_cache
MaxStates == 2      \* states in the Bing document
MaxCounties == 2    \* counties of one state in the Bing document

(***************************************************************************)
(* Python str: comparison and the list operations of construct_unique_key. *)
(***************************************************************************)
\* The code points of the characters of the params.
ord == [c \in {"1", "2", "_", "a", "b"} |->
          CASE c = "1" -> 49 [] c = "2" -> 50 [] c = "_" -> 95
            [] c = "a" -> 97 [] c = "b" -> 98]

\* s < t for two str: the first differing character decides, a proper
\* prefix is smaller.
StrLess(s, t) ==
    \/ /\ Len(s) < Len(t)
       /\ \A i \in 1..Len(s) : s[i] = t[i]
    \/ \E i \in 1..Len(s) :
          /\ i <= Len(t)
          /\ \A j \in 1..(i - 1) : s[j] = t[j]
          /\ ord[s[i]] < ord[t[i]]

RECURSIVE InsertSorted(_, _)
InsertSorted(x, sorted) ==
    IF sorted = <<>> THEN <<x>>
    ELSE IF StrLess(x, Head(sorted)) THEN <<x>> \o sorted
    ELSE <<Head(sorted)>> \o InsertSorted(x, Tail(sorted))

\* list.sort() on a list of str: ascending, stable.
RECURSIVE list_sort_stable(_)
list_sort_stable(l) ==
    IF l = <<>> THEN <<>>
    ELSE LET n == Len(l)
         IN InsertSorted(l[n], list_sort_stable(SubSeq(l, 1, n - 1)))

\* A slip: the list is joined in insertion order, the sort left out.
list_sort_missing(l) == l

list_sort(l) == list_sort_stable(l)

\* sep.join(l)
RECURSIVE str_join(_, _)
str_join(sep, l) ==
    IF l = <<>> THEN <<>>
    ELSE IF Len(l) = 1 THEN l[1]
    ELSE l[1] \o sep \o str_join(sep, Tail(l))

(***************************************************************************)
(* Python dict.                                                            *)
(***************************************************************************)
Keys(d) == {d[i][1] : i \in 1..Len(d)}

Items(d) == {d[i] : i \in 1..Len(d)}

Get(d, k) == d[CHOOSE i \in 1..Len(d) : d[i][1] = k][2]

\* d[k] = v: an existing key keeps its position and takes the new value, a
\* new key goes last.
Put(d, k, v) ==
    IF k \in Keys(d)
    THEN [i \in 1..Len(d) |-> IF d[i][1] = k THEN <<k, v>> ELSE d[i]]
    ELSE Append(d, <<k, v>>)

DictEq(d1, d2) == Items(d1) = Items(d2)

\* The dicts of at most n items over the keys K and the values V.
RECURSIVE DictsUpTo(_, _, _)
DictsUpTo(K, V, n) ==
    IF n = 0 THEN {<<>>}
    ELSE LET smaller == DictsUpTo(K, V, n - 1)
         IN smaller \cup
            UNION {{Append(d, <<k, v>>) : k \in K \ Keys(d), v \in V} :
                      d \in {x \in smaller : Len(x) = n - 1}}

(***************************************************************************)
(* construct_unique_key                                                    *)
(***************************************************************************)
connector == <<"_">>

\* f'{k}_{params[k]}' for each key, in insertion order.
param_strings(params) ==
    [i \in 1..Len(params) |-> params[i][1] \o <<"_">> \o params[i][2]]

\* A slip: the endpoint joined with the parameter strings, which leaves no
\* trailing separator when there are no parameters.
construct_unique_key_joined(baseurl, params) ==
    str_join(connector, <<baseurl>> \o list_sort(param_strings(params)))

construct_unique_key(baseurl, params) ==
    baseurl \o connector \o str_join(connector, list_sort(param_strings(params)))

(***************************************************************************)
(* json.dumps and json.loads on a mapping.  A key of a Python dict is      *)
(* [t |-> "str" or "int", v |-> its text]; a value is [t |-> "str", "list" *)
(* or "tuple", v |-> its content].  A JSON object text is the sequence of  *)
(* its members <<key text, [t |-> "string" or "array", v |-> content]>>,   *)
(* which may repeat a key.                                                 *)
(***************************************************************************)
Str(s) == [t |-> "str", v |-> s]

\* json.dumps writes a key that is not a str as the text of its value.
dumps_key(k) == k.v

\* A str is written as a string, a dict as an object, a list and a tuple
\* both as an array.
dumps_value(x) ==
    [t |-> IF x.t = "str" THEN "string"
           ELSE IF x.t = "dict" THEN "object" ELSE "array",
     v |-> x.v]

json_dumps(cache) ==
    [i \in 1..Len(cache) |-> <<dumps_key(cache[i][1]), dumps_value(cache[i][2])>>]

\* A string is read as a str, an object as a dict, an array as a list.
loads_value(j) ==
    [t |-> IF j.t = "string" THEN "str"
           ELSE IF j.t = "object" THEN "dict" ELSE "list",
     v |-> j.v]

\* json.loads of an object: every key a str, the last member of a repeated
\* key wins.
RECURSIVE json_loads(_)
json_loads(members) ==
    IF members = <<>> THEN <<>>
    ELSE LET n == Len(members)
         IN Put(json_loads(SubSeq(members, 1, n - 1)),
                Str(members[n][1]), loads_value(members[n][2]))

(***************************************************************************)
(* The backing file of a cache: <<"absent", <<>>>>, <<"unreadable", <<>>>> *)
(* (it exists and open() is refused), <<"invalid", <<>>>> (its text is not *)
(* JSON), <<"array", <<>>>> (JSON, not an object) or <<"object", members>>.*)
(***************************************************************************)
Absent == <<"absent", <<>>>>

Unreadable == <<"unreadable", <<>>>>

Invalid == <<"invalid", <<>>>>

JsonArray == <<"array", <<>>>>

ObjectText(members) == <<"object", members>>

Returns(kind, value) == [raised |-> "", kind |-> kind, value |-> value]

Raises(exc) == [raised |-> exc, kind |-> "", value |-> <<>>]

\* A slip: only a missing or unreadable file is caught.
open_cache_uncaught(file) ==
    IF file[1] \in {"absent", "unreadable"} THEN Returns("dict", <<>>)
    ELSE IF file[1] = "invalid" THEN Raises("JSONDecodeError")
    ELSE IF file[1] = "array" THEN Returns("list", <<>>)
    ELSE Returns("dict", json_loads(file[2]))

open_cache(file) ==
    IF file[1] \in {"absent", "unreadable"} THEN Returns("dict", <<>>)
    ELSE IF file[1] = "invalid" THEN Returns("dict", <<>>)
    ELSE IF file[1] = "array" THEN Returns("list", <<>>)
    ELSE Returns("dict", json_loads(file[2]))

\* The outcomes of the file operations of save_cache.
IoOutcomes == {"ok", "open_fails", "write_fails"}

\* A slip: the new items are added to the items the file already holds.
save_cache_merge(file, cache, io) ==
    IF io = "open_fails" THEN [file |-> file, raised |-> "OSError"]
    ELSE IF io = "write_fails" THEN [file |-> Invalid, raised |-> "OSError"]
    ELSE [file |-> IF file[1] = "object"
                   THEN ObjectText(file[2] \o json_dumps(cache))
                   ELSE ObjectText(json_dumps(cache)),
          raised |-> ""]

\* save_cache: open(..., 'w') truncates the file, the text is written whole.
save_cache(file, cache, io) ==
    IF io = "open_fails" THEN [file |-> file, raised |-> "OSError"]
    ELSE IF io = "write_fails" THEN [file |-> Invalid, raised |-> "OSError"]
    ELSE [file |-> ObjectText(json_dumps(cache)), raised |-> ""]

(***************************************************************************)
(* Names, endpoints and inputs.                                            *)
(***************************************************************************)
NY_TIMES_CACHE == "ny_times_cache.json"

BING_CACHE == "bing_cache.json"

CacheNames == {NY_TIMES_CACHE, BING_CACHE}

base_url ==
    <<"h", "t", "t", "p", "s", ":", "/", "/", "a", "p", "i", ".", "n",
      "y", "t", "i", "m", "e", "s", ".", "c", "o", "m", "/", "s", "v",
      "c", "/", "t", "o", "p", "s", "t", "o", "r", "i", "e", "s", "/",
      "v", "2", "/", "h", "e", "a", "l", "t", "h", ".", "j", "s", "o",
      "n">>

bing_url ==
    <<"h", "t", "t", "p", "s", ":", "/", "/", "b", "i", "n", "g", ".",
      "c", "o", "m", "/", "c", "o", "v", "i", "d", "/", "d", "a", "t",
      "a">>

\* The key under which load_bing_coronavirus_data and index read the cache.
bing_key ==
    <<"h", "t", "t", "p", "s", ":", "/", "/", "b", "i", "n", "g", ".",
      "c", "o", "m", "/", "c", "o", "v", "i", "d", "/", "d", "a", "t",
      "a", "_">>

xy_url ==
    <<"h", "t", "t", "p", "s", ":", "/", "/", "x", "/", "y">>

xy_key ==
    <<"h", "t", "t", "p", "s", ":", "/", "/", "x", "/", "y", "_", "a",
      "_", "1", "_", "b", "_", "2">>

ParamKeys == {<<"a">>, <<"b">>, <<"a", "_", "b">>}

ParamValues == {<<"1">>, <<"2">>, <<"b", "_", "1">>}

ParamDicts == DictsUpTo(ParamKeys, ParamValues, MaxParams)

\* The params of the calls of a process run: none, two orders of the same
\* items, and two dicts whose keys and values hold the separator.
CallParams ==
    { <<>>,
      << <<<<"a">>, <<"1">>>>, <<<<"b">>, <<"2">>>> >>,
      << <<<<"b">>, <<"2">>>>, <<<<"a">>, <<"1">>>> >>,
      << <<<<"a">>, <<"b", "_", "1">>>> >>,
      << <<<<"a", "_", "b">>, <<"1">>>> >> }

\* The endpoint of the calls of a process run: that of ny_times.
CallEndpoints == {base_url}

AllKeys == {Str(construct_unique_key(e, p)) : e \in CallEndpoints, p \in CallParams}

\* The documents response.json() may return.
Docs == {[t |-> "str", v |-> <<"1">>], [t |-> "list", v |-> <<"1">>]}

NoDoc == [t |-> "none", v |-> <<>>]

\* make_request: requests.get may raise, response.json() may raise.
NetOutcomes ==
    {Returns("doc", d) : d \in Docs} \cup
    {Raises("ConnectionError"), Raises("JSONDecodeError")}

\* What an earlier process run left in a cache file.
OldMembers == << <<bing_key, [t |-> "string", v |-> <<"2">>]>> >>

(***************************************************************************)
(* make_request_with_cache.  A call is one step: cache is CACHE_DICT and   *)
(* fs the files before it.  The operators give the set of the outcomes the *)
(* call may have, one for each thing make_request and the file operations  *)
(* of save_cache may do.  An outcome holds the new CACHE_DICT and files,   *)
(* what the call returns or raises, what its live fetches did (net, one    *)
(* per fetch) and the names save_cache was called with.                    *)
(***************************************************************************)
make_request(baseurl, params) == NetOutcomes

Outcome(cache, fs, result, net, savedTo) ==
    [cache |-> cache, files |-> fs, result |-> result, net |-> net,
     savedTo |-> savedTo]

\* The assignment and the lines after it, once make_request has returned.
StoreAndSave(cache, fs, name, key, net, io) ==
    LET stored == Put(cache, key, net.value)
        saved == save_cache(fs[name], stored, io)
    IN Outcome(stored, [fs EXCEPT ![name] = saved.file],
               IF saved.raised # "" THEN Raises(saved.raised)
               ELSE Returns("doc", Get(stored, key)), <<net>>, {name})

\* A slip: a hit fetches again and stores the new document.
hit_branch_refresh(cache, fs, name, key, baseurl, params) ==
    {IF net.raised # "" THEN Outcome(cache, fs, net, <<net>>, {})
     ELSE Outcome(Put(cache, key, net.value), fs, Returns("doc", net.value),
                  <<net>>, {}) : net \in make_request(baseurl, params)}

\* return CACHE_DICT[request_key]
hit_branch(cache, fs, name, key, baseurl, params) ==
    {Outcome(cache, fs, Returns("doc", Get(cache, key)), <<>>, {})}

\* A slip: the document is stored and returned, save_cache is not called.
miss_branch_no_save(cache, fs, name, key, baseurl, params) ==
    {IF net.raised # "" THEN Outcome(cache, fs, net, <<net>>, {})
     ELSE Outcome(Put(cache, key, net.value), fs, Returns("doc", net.value),
                  <<net>>, {}) : net \in make_request(baseurl, params)}

\* A slip: a failed fetch is caught and an empty document kept for the key.
miss_branch_stores_failure(cache, fs, name, key, baseurl, params) ==
    UNION {IF net.raised # ""
           THEN {Outcome(Put(cache, key, [t |-> "str", v |-> <<>>]), fs, net,
                         <<net>>, {})}
           ELSE {StoreAndSave(cache, fs, name, key, net, io) :
                    io \in IoOutcomes} : net \in make_request(baseurl, params)}

\* CACHE_DICT[request_key] = make_request(...); save_cache(...); return.
\* make_request is evaluated before the assignment: when it raises, nothing
\* is stored and save_cache is not reached.
miss_branch(cache, fs, name, key, baseurl, params) ==
    UNION {IF net.raised # "" THEN {Outcome(cache, fs, net, <<net>>, {})}
           ELSE {StoreAndSave(cache, fs, name, key, net, io) :
                    io \in IoOutcomes} : net \in make_request(baseurl, params)}

\* A slip: the cache is not consulted.
make_request_with_cache_always_fetches(cache, fs, name, baseurl, params) ==
    miss_branch(cache, fs, name, Str(construct_unique_key(baseurl, params)),
                baseurl, params)

make_request_with_cache(cache, fs, name, baseurl, params) ==
    LET request_key == Str(construct_unique_key(baseurl, params))
    IN IF request_key \in Keys(cache)
       THEN hit_branch(cache, fs, name, request_key, baseurl, params)
       ELSE miss_branch(cache, fs, name, request_key, baseurl, params)

(***************************************************************************)
(* The process run: CACHE_DICT starts empty and is never seeded from a     *)
(* file.  What the calls did is recorded in                                *)
(*   fetches[k]  the live fetches of fingerprint k that returned (ok) and  *)
(*               that raised (failed), and the document of the first one   *)
(*               that returned;                                            *)
(*   saves       the names on which a save_cache completed in this run     *)
(*               (written), the name of the latest call whose fetch        *)
(*               returned a document and whether that call completed (ok); *)
(*   last        the latest call: its name and fingerprint, what it        *)
(*               returned or raised, what its live fetches did, the names  *)
(*               it called save_cache with.                                *)
(***************************************************************************)
NoFetches == [k \in AllKeys |-> [ok |-> 0, failed |-> 0, first |-> NoDoc]]

NoSaves == [written |-> {}, name |-> "", ok |-> FALSE]

NoCall == [op |-> "", name |-> "", key |-> Str(<<>>), result |-> Raises(""),
           net |-> <<>>, savedTo |-> {}]

NoKeyRun == [pc |-> "", baseurl |-> <<>>, p1 |-> <<>>, p2 |-> <<>>,
             key1 |-> <<>>, key2 |-> <<>>]

NoDb == [tables |-> FALSE, States |-> <<>>, Counties |-> <<>>]

NoImp == [pc |-> "", raised |-> "", us_states |-> <<>>, unmatched |-> {}]

Init ==
    /\ CACHE_DICT = <<>>
    /\ files = [n \in CacheNames |->
                  IF n = BING_CACHE THEN ObjectText(OldMembers) ELSE Absent]
    /\ fetches = NoFetches
    /\ saves = NoSaves
    /\ last = NoCall
    /\ calls = 0
    /\ keyRun = NoKeyRun
    /\ db = NoDb
    /\ imp = NoImp

\* The live fetches of a call that returned a document, and those that raised.
FetchedOk(out) == {i \in 1..Len(out.net) : out.net[i].raised = ""}

FetchedBad(out) == {i \in 1..Len(out.net) : out.net[i].raised # ""}

Call(name, baseurl, params) ==
    \E out \in make_request_with_cache(CACHE_DICT, files, name, baseurl, params) :
       LET key == last'.key
           saveOk == out.result.raised = ""
       IN /\ calls < MaxCalls
          /\ calls' = calls + 1
          /\ CACHE_DICT' = out.cache
          /\ files' = out.files
          /\ last' = [op |-> "make_request_with_cache", name |-> name,
                      key |-> Str(construct_unique_key(baseurl, params)),
                      result |-> out.result, net |-> out.net,
                      savedTo |-> out.savedTo]
          /\ fetches' =
               IF out.net = <<>> THEN fetches
               ELSE [fetches EXCEPT ![key] =
                       [ok |-> @.ok + Cardinality(FetchedOk(out)),
                        failed |-> @.failed + Cardinality(FetchedBad(out)),
                        first |-> IF @.ok = 0 /\ FetchedOk(out) # {}
                                  THEN out.net[1].value ELSE @.first]]
          /\ saves' =
               [written |-> IF saveOk THEN saves.written \cup out.savedTo
                            ELSE saves.written,
                name |-> IF FetchedOk(out) # {} THEN name ELSE saves.name,
                ok |-> IF FetchedOk(out) # {} THEN saveOk ELSE saves.ok]
          /\ UNCHANGED <<keyRun, db, imp>>

Next ==
    \E name \in CacheNames, baseurl \in CallEndpoints, params \in CallParams :
        Call(name, baseurl, params)

Spec == Init /\ [][Next]_vars

(***************************************************************************)
(* Claims about a process run (Spec).                                      *)
(***************************************************************************)
Called == last.op = "make_request_with_cache"

\* C1: a fingerprint is fetched with success at most once in a process run,
\* at most once at all while no fetch of it has failed, and every call that
\* returns a document returns the one the first fetch of its fingerprint
\* brought.
C1_OneLiveFetchPerFingerprint ==
    /\ \A k \in AllKeys :
          /\ fetches[k].ok <= 1
          /\ fetches[k].failed = 0 => fetches[k].ok + fetches[k].failed <= 1
    /\ (Called /\ last.result.raised = "") =>
          /\ fetches[last.key].ok = 1
          /\ last.result.value = fetches[last.key].first

\* A later call with a fingerprint fetched earlier returned the document of
\* that fetch without a fetch of its own.
C1_Witness ==
    /\ Called
    /\ calls >= 2
    /\ last.net = <<>>
    /\ last.result.raised = ""
    /\ fetches[last.key].ok = 1
    /\ last.result.value = fetches[last.key].first

FetchFailed(c) == c.net # <<>> /\ c.net[Len(c.net)].raised # ""

\* C9: a call whose live fetch raises propagates that exception after one
\* fetch, stores nothing under the fingerprint, does not call save_cache and
\* leaves CACHE_DICT and the files as they were.
C9_FailedFetchChangesNothing ==
    [][(calls' = calls + 1 /\ FetchFailed(last')) =>
          /\ last'.result = last'.net[1]
          /\ Len(last'.net) = 1
          /\ last'.savedTo = {}
          /\ CACHE_DICT' = CACHE_DICT
          /\ files' = files
          /\ last'.key \notin Keys(CACHE_DICT')]_vars

\* The fetch of a fingerprint failed in two calls: the second call missed
\* again and fetched again.
C9_Witness ==
    /\ Called
    /\ FetchFailed(last)
    /\ fetches[last.key].failed >= 2
    /\ last.key \notin Keys(CACHE_DICT)
    /\ CACHE_DICT # <<>>

\* C10: a call keeps every entry of CACHE_DICT with its value, and a call
\* that hits returns the stored value with no live fetch, no change of
\* CACHE_DICT and no write to a file.
C10_EntriesNeverUpdated ==
    [][/\ \A k \in Keys(CACHE_DICT) :
             /\ k \in Keys(CACHE_DICT')
             /\ Get(CACHE_DICT', k) = Get(CACHE_DICT, k)
       /\ (calls' = calls + 1 /\ last'.key \in Keys(CACHE_DICT)) =>
             /\ last'.result = Returns("doc", Get(CACHE_DICT, last'.key))
             /\ last'.net = <<>>
             /\ last'.savedTo = {}
             /\ CACHE_DICT' = CACHE_DICT
             /\ files' = files]_vars

\* A call hit an entry stored under the other cache name.
C10_Witness ==
    /\ Called
    /\ last.net = <<>>
    /\ last.key \in Keys(CACHE_DICT)
    /\ Len(CACHE_DICT) = 2
    /\ last.name \notin saves.written

(***************************************************************************)
(* construct_unique_key on its own (SpecKey): an endpoint and a params     *)
(* dict are given, the key is built for them and for a second dict.        *)
(***************************************************************************)
KeyEndpoints == {xy_url, bing_url}

InitKey ==
    /\ keyRun \in {[pc |-> "input", baseurl |-> e, p1 |-> p, p2 |-> <<>>,
                    key1 |-> <<>>, key2 |-> <<>>] :
                      e \in KeyEndpoints, p \in ParamDicts}
    /\ CACHE_DICT = <<>>
    /\ files = [n \in CacheNames |-> Absent]
    /\ fetches = NoFetches
    /\ saves = NoSaves
    /\ last = NoCall
    /\ calls = 0
    /\ db = NoDb
    /\ imp = NoImp

BuildKeys(p2) ==
    /\ keyRun.pc = "input"
    /\ keyRun' = [keyRun EXCEPT
                    !.pc = "done",
                    !.p2 = p2,
                    !.key1 = construct_unique_key(keyRun.baseurl, keyRun.p1),
                    !.key2 = construct_unique_key(keyRun.baseurl, p2)]
    /\ UNCHANGED <<CACHE_DICT, files, fetches, saves, last, calls, db, imp>>

NextKey == \E p2 \in ParamDicts : BuildKeys(p2)

SpecKey == InitKey /\ [][NextKey]_vars

AB12 == << <<<<"a">>, <<"1">>>>, <<<<"b">>, <<"2">>>> >>

B2A1 == << <<<<"b">>, <<"2">>>>, <<<<"a">>, <<"1">>>> >>

\* C2: two params dicts with the same items, in whatever order, give the
\* same key; "https://x/y" with {"b":"2","a":"1"} or {"a":"1","b":"2"} gives
\* "https://x/y_a_1_b_2".
C2_KeyIgnoresInsertionOrder ==
    keyRun.pc = "done" =>
       /\ DictEq(keyRun.p1, keyRun.p2) => keyRun.key1 = keyRun.key2
       /\ (keyRun.baseurl = xy_url /\ DictEq(keyRun.p1, AB12)) =>
             keyRun.key1 = xy_key

C2_Witness ==
    /\ keyRun.pc = "done"
    /\ keyRun.baseurl = xy_url
    /\ keyRun.p1 = B2A1
    /\ keyRun.p2 = AB12
    /\ keyRun.key1 = xy_key
    /\ keyRun.key2 = xy_key

\* C3 as claimed: two params dicts give the same key for an endpoint if and
\* only if they hold the same items.
C3_KeyIdentifiesParams ==
    keyRun.pc = "done" =>
       (keyRun.key1 = keyRun.key2 <=> DictEq(keyRun.p1, keyRun.p2))

\* C4: with no params the key is the endpoint and one separator; for the
\* Bing endpoint it is the key the import and the index route read.
C4_EmptyParamsKey ==
    (keyRun.pc = "done" /\ keyRun.p1 = <<>>) =>
       /\ keyRun.key1 = keyRun.baseurl \o <<"_">>
       /\ keyRun.baseurl = bing_url => keyRun.key1 = bing_key

C4_Witness ==
    /\ keyRun.pc = "done"
    /\ keyRun.p1 = <<>>
    /\ keyRun.baseurl = bing_url
    /\ keyRun.key1 = bing_key

(***************************************************************************)
(* save_cache and open_cache on their own (SpecStore), on the file that    *)
(* open_cache is called with.  saves records the mapping of the latest     *)
(* save_cache on the file when it completed, and whether the file held a   *)
(* key then that the mapping does not.                                     *)
(***************************************************************************)
StoreKeys == {Str(<<"1">>), Str(<<"a">>), [t |-> "int", v |-> <<"1">>]}

StoreValues == {[t |-> "str", v |-> <<"1">>], [t |-> "list", v |-> <<"1">>],
                [t |-> "tuple", v |-> <<"1">>]}

Mappings == DictsUpTo(StoreKeys, StoreValues, MaxEntries)

\* A JSON object text that repeats a key.
RepeatedMembers ==
    << <<<<"a">>, [t |-> "string", v |-> <<"1">>]>>,
       <<<<"b">>, [t |-> "array", v |-> <<"1">>]>>,
       <<<<"a">>, [t |-> "string", v |-> <<"2">>]>> >>

StoreFiles == {Absent, Unreadable, Invalid, JsonArray, ObjectText(<<>>),
               ObjectText(OldMembers), ObjectText(RepeatedMembers)}

NotSaved == [state |-> "none", arg |-> <<>>, replaced |-> FALSE]

InitStore ==
    /\ files \in {[n \in CacheNames |-> IF n = BING_CACHE THEN f ELSE Absent] :
                     f \in StoreFiles}
    /\ saves = NotSaved
    /\ last = [op |-> "", result |-> Raises("")]
    /\ CACHE_DICT = <<>>
    /\ fetches = NoFetches
    /\ calls = 0
    /\ keyRun = NoKeyRun
    /\ db = NoDb
    /\ imp = NoImp

SaveCache(cache, io) ==
    \E saved \in {save_cache(files[BING_CACHE], cache, io)} :
       /\ files' = [files EXCEPT ![BING_CACHE] = saved.file]
       /\ last' = [op |-> "save_cache",
                   result |-> IF saved.raised # "" THEN Raises(saved.raised)
                              ELSE Returns("None", <<>>)]
       /\ saves' = IF saved.raised # "" THEN NotSaved
                   ELSE [state |-> "saved", arg |-> cache,
                         replaced |->
                            /\ files[BING_CACHE][1] = "object"
                            /\ \E i \in 1..Len(files[BING_CACHE][2]) :
                                  Str(files[BING_CACHE][2][i][1]) \notin Keys(cache)]
       /\ UNCHANGED <<CACHE_DICT, fetches, calls, keyRun, db, imp>>

OpenCache ==
    /\ last' = [op |-> "open_cache", result |-> open_cache(files[BING_CACHE])]
    /\ UNCHANGED <<CACHE_DICT, files, fetches, saves, calls, keyRun, db, imp>>

NextStore ==
    \/ \E cache \in Mappings, io \in IoOutcomes : SaveCache(cache, io)
    \/ OpenCache

SpecStore == InitStore /\ [][NextStore]_vars

\* The members of an object text that json.loads keeps: for each key the
\* last one.
KeptMembers(members) ==
    {members[i] : i \in {j \in 1..Len(members) :
                            \A h \in (j + 1)..Len(members) :
                               members[h][1] # members[j][1]}}

\* C6: open_cache never raises; it returns an empty dict when the file is
\* absent, unreadable or not JSON, and the mapping of the file when the file
\* holds a JSON object.
C6_OpenCacheNeverRaises ==
    last.op = "open_cache" =>
       LET file == files[BING_CACHE]
       IN /\ last.result.raised = ""
          /\ file[1] \in {"absent", "unreadable", "invalid"} =>
                last.result = Returns("dict", <<>>)
          /\ file[1] = "object" =>
                /\ last.result.kind = "dict"
                /\ Items(last.result.value) =
                      {<<Str(m[1]), loads_value(m[2])>> : m \in KeptMembers(file[2])}

C6_Witness ==
    /\ last.op = "open_cache"
    /\ files[BING_CACHE] = Invalid
    /\ saves.state = "none"
    /\ last.result = Returns("dict", <<>>)

\* C7 as claimed: open_cache after a save_cache of M returns a mapping equal
\* to M, for every mapping M that json.dumps accepts.
C7_RoundTripAnyMapping ==
    (last.op = "open_cache" /\ saves.state = "saved") =>
       /\ last.result.kind = "dict"
       /\ DictEq(last.result.value, saves.arg)

\* The mappings made of what JSON holds: every key a str, no value a tuple.
JsonNative(cache) ==
    \A i \in 1..Len(cache) : cache[i][1].t = "str" /\ cache[i][2].t # "tuple"

\* C7, amended: open_cache after a completed save_cache of M returns a
\* mapping equal to M when every key of M is a str and no value a tuple, and
\* nothing of what the file held before.
C7_RoundTripJsonNativeMapping ==
    (last.op = "open_cache" /\ saves.state = "saved" /\ JsonNative(saves.arg)) =>
       /\ last.result.kind = "dict"
       /\ DictEq(last.result.value, saves.arg)

C7_Witness ==
    /\ last.op = "open_cache"
    /\ saves.state = "saved"
    /\ saves.replaced
    /\ JsonNative(saves.arg)
    /\ Len(saves.arg) = 2
    /\ DictEq(last.result.value, saves.arg)

(***************************************************************************)
(* The import (SpecImport): create_db, then load_bing_coronavirus_data,    *)
(* which fills States on one connection and Counties on a second one.  The *)
(* database is a file: between the two connections another process may    *)
(* change it.  A nullable column holds <<>> for NULL and <<x>> for x.  The *)
(* document under bing_key is held as the list of the states of its first  *)
(* area, each [displayName, totalConfirmed, totalDeaths, areas].           *)
(***************************************************************************)
None == <<>>

\* "StateId" INTEGER NOT NULL
CountiesStateIdNotNull == TRUE

create_db(d) == [tables |-> TRUE, States |-> <<>>, Counties |-> <<>>]

\* INSERT INTO States VALUES (NULL, ?, ?, ?) for each state, in order.
insert_states(us_states) ==
    [i \in 1..Len(us_states) |->
        [Id |-> i, Name |-> us_states[i].displayName,
         TotalConfirmed |-> us_states[i].totalConfirmed,
         TotalDeaths |-> us_states[i].totalDeaths]]

\* SELECT Id FROM States WHERE Name = ?, fetchone(): the first row or None.
select_state_id(rows, name) ==
    LET found == {i \in 1..Len(rows) : rows[i].Name = name}
    IN IF found = {} THEN None
       ELSE <<rows[CHOOSE i \in found : \A j \in found : i <= j].Id>>

\* INSERT INTO Counties VALUES (NULL, ?, ?, ?, ?) for each county of a state;
\* a NULL in a NOT NULL column raises IntegrityError.
RECURSIVE insert_counties(_, _, _)
insert_counties(acc, state_id, counties) ==
    IF counties = <<>> THEN acc
    ELSE IF state_id = None /\ CountiesStateIdNotNull
    THEN [acc EXCEPT !.raised = "IntegrityError"]
    ELSE insert_counties(
            [acc EXCEPT !.rows =
                Append(@, [Id |-> Len(@) + 1,
                           Name |-> Head(counties).displayName,
                           StateId |-> state_id,
                           TotalConfirmed |-> Head(counties).totalConfirmed,
                           TotalDeaths |-> Head(counties).totalDeaths])],
            state_id, Tail(counties))

\* The loop over the states on the second connection; unmatched collects
\* the counties <<i, j>> of the states whose lookup returned no row.
RECURSIVE load_counties(_, _, _, _)
load_counties(acc, rows, us_states, i) ==
    IF i > Len(us_states) \/ acc.raised # "" THEN acc
    ELSE LET state_id == select_state_id(rows, us_states[i].displayName)
             marked == IF state_id # None THEN acc
                       ELSE [acc EXCEPT !.unmatched =
                               @ \cup {<<i, j>> :
                                        j \in 1..Len(us_states[i].areas)}]
         IN load_counties(insert_counties(marked, state_id, us_states[i].areas),
                          rows, us_states, i + 1)

StateNames == {"Ohio", "Utah"}

CountyNames == {"Adams", "Brown"}

RECURSIVE SeqsUpTo(_, _)
SeqsUpTo(S, n) ==
    IF n = 0 THEN {<<>>}
    ELSE LET smaller == SeqsUpTo(S, n - 1)
         IN smaller \cup {Append(q, x) : q \in {y \in smaller : Len(y) = n - 1},
                                         x \in S}

CountyInputs ==
    {[displayName |-> n, totalConfirmed |-> 5, totalDeaths |-> 1] :
        n \in CountyNames}

StateInputs ==
    {[displayName |-> n, totalConfirmed |-> 9, totalDeaths |-> 2, areas |-> a] :
        n \in StateNames, a \in SeqsUpTo(CountyInputs, MaxCounties)}

UsStatesInputs == SeqsUpTo(StateInputs, MaxStates)

BingText(us_states) ==
    ObjectText(<< <<bing_key, [t |-> "object", v |-> us_states]>> >>)

ImportFiles ==
    {Absent, JsonArray, ObjectText(<<>>)} \cup
    {BingText(us) : us \in UsStatesInputs}

OldDb ==
    [tables |-> TRUE,
     States |-> <<[Id |-> 1, Name |-> "Ohio", TotalConfirmed |-> 3,
                   TotalDeaths |-> 0]>>,
     Counties |-> <<[Id |-> 1, Name |-> "Adams", StateId |-> <<1>>,
                     TotalConfirmed |-> 3, TotalDeaths |-> 0]>>]

InitImport ==
    /\ files \in {[n \in CacheNames |-> IF n = BING_CACHE THEN f ELSE Absent] :
                     f \in ImportFiles}
    /\ db \in {NoDb, OldDb}
    /\ imp = [NoImp EXCEPT !.pc = "start"]
    /\ CACHE_DICT = <<>>
    /\ fetches = NoFetches
    /\ saves = NoSaves
    /\ last = NoCall
    /\ calls = 0
    /\ keyRun = NoKeyRun

CreateDb ==
    /\ imp.pc = "start"
    /\ db' = create_db(db)
    /\ imp' = [imp EXCEPT !.pc = "created"]
    /\ UNCHANGED <<CACHE_DICT, files, fetches, saves, last, calls, keyRun>>

\* load_bing_coronavirus_data up to the close of the first connection.
LoadStates ==
    /\ imp.pc = "created"
    /\ \E bing_data \in {open_cache(files[BING_CACHE])} :
          IF bing_data.kind # "dict"
          THEN /\ imp' = [imp EXCEPT !.pc = "failed", !.raised = "TypeError"]
               /\ db' = db
          ELSE IF Str(bing_key) \notin Keys(bing_data.value)
          THEN /\ imp' = [imp EXCEPT !.pc = "failed", !.raised = "KeyError"]
               /\ db' = db
          ELSE /\ imp' = [imp EXCEPT
                            !.pc = "states_loaded",
                            !.us_states = Get(bing_data.value, Str(bing_key)).v]
               /\ db' = [db EXCEPT !.States = insert_states(imp'.us_states)]
    /\ UNCHANGED <<CACHE_DICT, files, fetches, saves, last, calls, keyRun>>

\* Another process deletes a row of States while no connection of the
\* import is open.
OtherProcessDeletesState(i) ==
    /\ imp.pc = "states_loaded"
    /\ i \in 1..Len(db.States)
    /\ db' = [db EXCEPT !.States =
                SubSeq(@, 1, i - 1) \o SubSeq(@, i + 1, Len(@))]
    /\ UNCHANGED <<CACHE_DICT, files, fetches, saves, last, calls, keyRun, imp>>

\* load_bing_coronavirus_data on the second connection: the rows inserted
\* are committed at the end of the loop and lost when it raises.
LoadCounties ==
    /\ imp.pc = "states_loaded"
    /\ \E done \in {load_counties([rows |-> <<>>, raised |-> "", unmatched |-> {}],
                                  db.States, imp.us_states, 1)} :
          /\ imp' = [imp EXCEPT
                       !.pc = IF done.raised # "" THEN "failed" ELSE "done",
                       !.raised = done.raised,
                       !.unmatched = done.unmatched]
          /\ db' = IF done.raised # "" THEN db
                   ELSE [db EXCEPT !.Counties = done.rows]
    /\ UNCHANGED <<CACHE_DICT, files, fetches, saves, last, calls, keyRun>>

NextImport ==
    \/ CreateDb
    \/ LoadStates
    \/ \E i \in 1..MaxStates : OtherProcessDeletesState(i)
    \/ LoadCounties

SpecImport == InitImport /\ [][NextImport]_vars

\* C8: when the import has ended, every county whose owning-state lookup
\* returned no row is a row of Counties with a NULL StateId, and the import
\* raised nothing.
C8_UnmatchedCountyStoredWithNull ==
    (imp.pc \in {"done", "failed"} /\ imp.unmatched # {}) =>
       /\ imp.raised = ""
       /\ \A c \in imp.unmatched :
             \E r \in 1..Len(db.Counties) :
                /\ db.Counties[r].Name =
                      imp.us_states[c[1]].areas[c[2]].displayName
                /\ db.Counties[r].StateId = None

====
